---- MODULE Spec2Model ----
(***************************************************************************)
(* Moderation routes of the Discord bot management API.                    *)
(*                                                                         *)
(* Three variants of the punish / remove-punishment handlers live in the   *)
(* repository:                                                             *)
(*   - src/routes/moderation.js      POST /:guildId/punish,                *)
(*                                   DELETE /:guildId/punishment/:logId    *)
(*   - src/routes/giveaways.js:317   POST /punish (discordAPI.punishMember)*)
(*                                   GET /active, POST /remove/:logId      *)
(*   - src/routes/giveaways.js:788   POST /punish (mod_logs + punishments),*)
(*                                   POST /unpunish                        *)
(* Every handler is an async function; each `await` on the platform SDK or *)
(* on the store is a point where other requests may run.  A handler is     *)
(* modelled as a "Call" step (validation, look-ups and the SDK call) and   *)
(* one "Write" step per store write that follows it.                       *)
(*                                                                         *)
(* Time is counted in seconds.  Nullable numbers and booleans are          *)
(* sequences of length 0 (null) or 1.                                      *)
(***************************************************************************)
EXTENDS Integers, Sequences, FiniteSets, TLC

VARIABLES
    moderation_logs,  \* table moderation_logs: sequence of rows, id = index
    mod_logs,         \* table mod_logs
    punishments,      \* table punishments
    now,              \* Date.now(), in seconds
    platform,         \* enforcement actions the platform has applied
    req               \* per connection: the request being served / its response

vars == <<moderation_logs, mod_logs, punishments, now, platform, req>>

-----------------------------------------------------------------------------
(* Bounds *)

MaxRows == 2      \* rows in the tables
MaxTime == 2      \* last value of the clock
MaxRemovals == 1  \* removal rows moderation.js may add to a full table

-----------------------------------------------------------------------------
(* Values *)

NULL == "NULL"
None == <<>>
Some(x) == <<x>>

Moderator == "m1"

Slots == {1, 2}

\* JavaScript truthiness of a string-or-missing value: !x
FalsyStr(x) == x = NULL \/ x = ""

\* JavaScript truthiness of a number-or-missing value: !x
FalsyNum(d) == d = None \/ d = Some(0)

\* String.prototype.toLowerCase on the action names used
ToLowerCase(a) ==
    CASE a = "Ban" -> "ban"
      [] a = "BAN" -> "ban"
      [] a = "Timeout" -> "timeout"
      [] a = "UnBan" -> "unban"
      [] OTHER -> a

\* Number.parseInt on a JSON number
ParseInt(n) == n

Req(g, u, m, a, r, d, l) ==
    [guild_id |-> g, user_id |-> u, moderator_id |-> m, action |-> a,
     reason |-> r, duration |-> d, logId |-> l]

NoReq == Req(NULL, NULL, NULL, NULL, NULL, None, None)

IdleSlot ==
    [op |-> "none", pc |-> "idle", rq |-> NoReq, success |-> FALSE,
     error_message |-> NULL, gw |-> "none", status |-> 0, log |-> None,
     base |-> 0, at |-> 0, ids |-> {}, list |-> <<>>, db |-> "none", row |-> None]

\* a row of moderation_logs; the columns a handler does not set are null
LogRow(id, g, u, m, at, a, r, d, s, e, err, rel, t) ==
    [id |-> id, guild_id |-> g, user_id |-> u, moderator_id |-> m,
     action_type |-> at, action |-> a, reason |-> r, duration |-> d,
     success |-> s, executed |-> e, error_message |-> err,
     related_log_id |-> rel, created_at |-> t]

NextId(table) == Len(table) + 1

Busy(s) == req[s].pc \notin {"idle", "done"}

\* the model serves a new request only while the tables have room for the
\* row it and each suspended request may write
HasRoom ==
    LET busy == Cardinality({s \in Slots : Busy(s)})
    IN /\ Len(moderation_logs) + Len(mod_logs) + busy < MaxRows
       /\ Len(punishments) + busy < MaxRows

\* the response is sent: res.status(code).json(...).  gw is the outcome of the
\* platform call ("none": no call is due, "ok", "threw", "not_found": the guild
\* or member look-up failed, "skipped": the call was due and not made); db is
\* that of the store write ("none", "ok", "error").
Respond(s, op, rq, code, success, log, gw, err, db) ==
    req' = [req EXCEPT ![s] =
              [op |-> op, pc |-> "done", rq |-> rq, success |-> success,
               error_message |-> err, gw |-> gw, status |-> code, log |-> log,
               base |-> IF Busy(s) THEN req[s].base ELSE 0, at |-> 0, ids |-> {}, list |-> <<>>,
               db |-> db, row |-> None]]

\* the handler is suspended at an await, to resume at `pc`
Suspend(s, op, rq, pc, success, gw, err) ==
    req' = [req EXCEPT ![s] =
              [op |-> op, pc |-> pc, rq |-> rq, success |-> success,
               error_message |-> err, gw |-> gw, status |-> 0, log |-> None,
               base |-> Len(moderation_logs), at |-> 0, ids |-> {}, list |-> <<>>,
               db |-> "none", row |-> None]]

-----------------------------------------------------------------------------
(* src/routes/moderation.js : POST /:guildId/punish *)

validActionsV1 == {"warn", "mute", "kick", "ban", "timeout"}

\* lines 40-103: validation, guild and member look-up, the Discord action
PunishCallV1(s, rq, guildFound, memberFound, sdkOk) ==
    /\ ~Busy(s) /\ HasRoom
    /\ IF FalsyStr(rq.user_id) \/ FalsyStr(rq.action) \/ FalsyStr(rq.reason)
       THEN /\ Respond(s, "punishV1", rq, 400, FALSE, None, "none", NULL, "none")
            /\ UNCHANGED platform
       ELSE IF rq.action \notin validActionsV1
       THEN /\ Respond(s, "punishV1", rq, 400, FALSE, None, "none", NULL, "none")
            /\ UNCHANGED platform
       ELSE IF ~guildFound
       THEN /\ Respond(s, "punishV1", rq, 404, FALSE, None, "not_found", NULL, "none")
            /\ UNCHANGED platform
       ELSE IF ~memberFound /\ rq.action # "ban"
       THEN /\ Respond(s, "punishV1", rq, 404, FALSE, None, "not_found", NULL, "none")
            /\ UNCHANGED platform
       ELSE IF rq.action = "warn"
       THEN /\ Suspend(s, "punishV1", rq, "insert", TRUE, "none", NULL)
            /\ UNCHANGED platform
       ELSE IF sdkOk
       THEN /\ Suspend(s, "punishV1", rq, "insert", TRUE, "ok", NULL)
            /\ platform' = platform \cup {<<rq.guild_id, rq.user_id, rq.action>>}
       ELSE /\ Suspend(s, "punishV1", rq, "insert", FALSE, "threw", "discord error")
            /\ UNCHANGED platform
    /\ UNCHANGED <<moderation_logs, mod_logs, punishments, now>>

\* the handler, were a refused insert to undo the Discord action
PunishWriteV1Compensating(s, dbOk) ==
    /\ req[s].op = "punishV1" /\ req[s].pc = "insert"
    /\ LET r == req[s]
           id == NextId(moderation_logs)
       IN IF dbOk
          THEN /\ moderation_logs' = Append(moderation_logs,
                     LogRow(id, r.rq.guild_id, r.rq.user_id, Moderator,
                            r.rq.action, NULL, r.rq.reason, r.rq.duration,
                            Some(r.success), None, r.error_message, None, now))
               /\ Respond(s, "punishV1", r.rq, 201, r.success, Some(id), r.gw,
                          r.error_message, "ok")
               /\ UNCHANGED platform
          ELSE /\ UNCHANGED moderation_logs
               /\ Respond(s, "punishV1", r.rq, 500, FALSE, None, r.gw,
                          r.error_message, "error")
               /\ platform' = platform \ {<<r.rq.guild_id, r.rq.user_id, r.rq.action>>}
    /\ UNCHANGED <<mod_logs, punishments, now>>

\* lines 105-133: the insert into moderation_logs and the response
PunishWriteV1(s, dbOk) ==
    /\ req[s].op = "punishV1" /\ req[s].pc = "insert"
    /\ LET r == req[s]
           id == NextId(moderation_logs)
       IN IF dbOk
          THEN /\ moderation_logs' = Append(moderation_logs,
                     LogRow(id, r.rq.guild_id, r.rq.user_id, Moderator,
                            r.rq.action, NULL, r.rq.reason, r.rq.duration,
                            Some(r.success), None, r.error_message, None, now))
               /\ Respond(s, "punishV1", r.rq, 201, r.success, Some(id), r.gw,
                          r.error_message, "ok")
          ELSE /\ UNCHANGED moderation_logs
               /\ Respond(s, "punishV1", r.rq, 500, FALSE, None, r.gw,
                          r.error_message, "error")
    /\ UNCHANGED <<mod_logs, punishments, now, platform>>

-----------------------------------------------------------------------------
(* src/config/discord.js : discordAPI.punishMember *)

\* lines 119-149: the outcome of the call; guildOk and memberOk are the
\* outcomes of the two fetches, sdkOk that of the SDK call.  The result is
\* {success: true} for "ok" and "none" (a warning needs no SDK call) and
\* {success: false, error} otherwise.
punishMember(action, duration, guildOk, memberOk, sdkOk) ==
    IF ~guildOk \/ ~memberOk THEN "not_found"
    ELSE CASE action = "warn" -> "none"
           [] action = "timeout" ->
                IF FalsyNum(duration) THEN "invalid"
                ELSE IF sdkOk THEN "ok" ELSE "threw"
           [] action = "kick" -> IF sdkOk THEN "ok" ELSE "threw"
           [] action = "ban" -> IF sdkOk THEN "ok" ELSE "threw"
           [] OTHER -> "invalid"

-----------------------------------------------------------------------------
(* src/routes/giveaways.js : POST /punish (lines 317-366) *)

validActionsV2 == {"warn", "timeout", "kick", "ban"}

\* lines 319-336
PunishCallV2(s, rq, guildOk, memberOk, sdkOk) ==
    /\ ~Busy(s) /\ HasRoom
    /\ IF FalsyStr(rq.guild_id) \/ FalsyStr(rq.user_id) \/ FalsyStr(rq.action)
          \/ FalsyStr(rq.reason)
       THEN /\ Respond(s, "punishV2", rq, 400, FALSE, None, "none", NULL, "none")
            /\ UNCHANGED platform
       ELSE IF rq.action \notin validActionsV2
       THEN /\ Respond(s, "punishV2", rq, 400, FALSE, None, "none", NULL, "none")
            /\ UNCHANGED platform
       ELSE LET result == punishMember(rq.action, rq.duration, guildOk, memberOk, sdkOk)
            IN IF result = "invalid"
               THEN /\ Respond(s, "punishV2", rq, 400, FALSE, None, "none",
                               "Duration required for timeout", "none")
                    /\ UNCHANGED platform
               ELSE IF result \in {"not_found", "threw"}
               THEN /\ Respond(s, "punishV2", rq, 400, FALSE, None, result,
                               "discord error", "none")
                    /\ UNCHANGED platform
               ELSE /\ Suspend(s, "punishV2", rq, "insert", TRUE, result, NULL)
                    /\ platform' = IF result = "ok"
                                   THEN platform \cup {<<rq.guild_id, rq.user_id, rq.action>>}
                                   ELSE platform
    /\ UNCHANGED <<moderation_logs, mod_logs, punishments, now>>

\* lines 338-365
PunishWriteV2(s, dbOk) ==
    /\ req[s].op = "punishV2" /\ req[s].pc = "insert"
    /\ LET r == req[s]
           id == NextId(moderation_logs)
       IN IF dbOk
          THEN /\ moderation_logs' = Append(moderation_logs,
                     LogRow(id, r.rq.guild_id, r.rq.user_id, Moderator,
                            NULL, r.rq.action, r.rq.reason,
                            IF FalsyNum(r.rq.duration) THEN None ELSE r.rq.duration,
                            None, Some(TRUE), NULL, None, now))
               /\ Respond(s, "punishV2", r.rq, 200, TRUE, Some(id), r.gw, NULL, "ok")
          ELSE /\ UNCHANGED moderation_logs
               /\ Respond(s, "punishV2", r.rq, 500, FALSE, None, r.gw, NULL, "error")
    /\ UNCHANGED <<mod_logs, punishments, now, platform>>

-----------------------------------------------------------------------------
(* src/routes/giveaways.js : GET /active (lines 417-453) *)

\* lines 421-429: the rows the query selects
ActiveQuery(guild_id) ==
    {i \in 1..Len(moderation_logs) :
        /\ moderation_logs[i].action \in {"timeout", "ban"}
        /\ moderation_logs[i].executed = Some(TRUE)
        /\ (~FalsyStr(guild_id) => moderation_logs[i].guild_id = guild_id)}

\* the filter with `expiryTime >= Date.now()`
NotExpiredInclusive(punishment, t) ==
    IF punishment.action = "timeout" /\ ~FalsyNum(punishment.duration)
    THEN punishment.created_at + punishment.duration[1] >= t
    ELSE TRUE

\* lines 440-446: the filter callback; t is Date.now()
NotExpired(punishment, t) ==
    IF punishment.action = "timeout" /\ ~FalsyNum(punishment.duration)
    THEN LET expiryTime == punishment.created_at + punishment.duration[1]
         IN expiryTime > t
    ELSE TRUE

\* the handler, were it to mark the rows it finds expired
ListActiveExpiring(s, rq) ==
    /\ ~Busy(s)
    /\ req' = [req EXCEPT ![s] =
                 [op |-> "active", pc |-> "done", rq |-> rq, success |-> FALSE,
                  error_message |-> NULL, gw |-> "none", status |-> 200,
                  log |-> None, base |-> Len(moderation_logs), at |-> now,
                  ids |-> {i \in ActiveQuery(rq.guild_id) :
                              NotExpired(moderation_logs[i], now)},
                  list |-> <<>>, db |-> "none", row |-> None]]
    /\ moderation_logs' =
           [i \in 1..Len(moderation_logs) |->
               IF i \in ActiveQuery(rq.guild_id) /\ ~NotExpired(moderation_logs[i], now)
               THEN [moderation_logs[i] EXCEPT !.executed = Some(FALSE)]
               ELSE moderation_logs[i]]
    /\ UNCHANGED <<mod_logs, punishments, now, platform>>

\* lines 419-448: the response {punishments: activePunishments}, as the ids of
\* its rows; `at` is the Date.now() of the filter and `base` the number of rows
\* the table held
ListActive(s, rq) ==
    /\ ~Busy(s)
    /\ req' = [req EXCEPT ![s] =
                 [op |-> "active", pc |-> "done", rq |-> rq, success |-> FALSE,
                  error_message |-> NULL, gw |-> "none", status |-> 200,
                  log |-> None, base |-> Len(moderation_logs), at |-> now,
                  ids |-> {i \in ActiveQuery(rq.guild_id) :
                              NotExpired(moderation_logs[i], now)},
                  list |-> <<>>, db |-> "none", row |-> None]]
    /\ UNCHANGED <<moderation_logs, mod_logs, punishments, now, platform>>

-----------------------------------------------------------------------------
(* src/routes/giveaways.js : POST /remove/:logId (lines 456-519) *)

\* the handler, were a missing row thrown like any other fetch error (500)
RemoveCallV2Throwing(s, rq, guildFound, sdkOk) ==
    /\ ~Busy(s) /\ HasRoom
    /\ IF rq.logId = None \/ rq.logId[1] \notin 1..Len(moderation_logs)
       THEN /\ Respond(s, "removeV2", rq, 500, FALSE, None, "none", NULL, "none")
            /\ UNCHANGED platform
       ELSE LET originalLog == moderation_logs[rq.logId[1]]
            IN IF originalLog.action # "ban"
               THEN /\ Respond(s, "removeV2", rq, 400, FALSE, None, "none", NULL, "none")
                    /\ UNCHANGED platform
               ELSE IF guildFound /\ sdkOk
               THEN /\ Suspend(s, "removeV2", rq, "insert", TRUE, "ok", NULL)
                    /\ platform' = platform \
                          {<<originalLog.guild_id, originalLog.user_id, "ban">>}
               ELSE /\ Suspend(s, "removeV2", rq, "insert", TRUE,
                               IF guildFound THEN "threw" ELSE "skipped", NULL)
                    /\ UNCHANGED platform
    /\ UNCHANGED <<moderation_logs, mod_logs, punishments, now>>

\* lines 458-489: load the original, refuse anything but a ban, unban
RemoveCallV2(s, rq, guildFound, sdkOk) ==
    /\ ~Busy(s) /\ HasRoom
    /\ IF rq.logId = None \/ rq.logId[1] \notin 1..Len(moderation_logs)
       THEN /\ Respond(s, "removeV2", rq, 404, FALSE, None, "none", NULL, "none")
            /\ UNCHANGED platform
       ELSE LET originalLog == moderation_logs[rq.logId[1]]
            IN IF originalLog.action # "ban"
               THEN /\ Respond(s, "removeV2", rq, 400, FALSE, None, "none", NULL, "none")
                    /\ UNCHANGED platform
               ELSE IF guildFound /\ sdkOk
               THEN /\ Suspend(s, "removeV2", rq, "insert", TRUE, "ok", NULL)
                    /\ platform' = platform \
                          {<<originalLog.guild_id, originalLog.user_id, "ban">>}
               ELSE /\ Suspend(s, "removeV2", rq, "insert", TRUE,
                               IF guildFound THEN "threw" ELSE "skipped", NULL)
                    /\ UNCHANGED platform
    /\ UNCHANGED <<moderation_logs, mod_logs, punishments, now>>

\* lines 491-518
RemoveWriteV2(s, dbOk) ==
    /\ req[s].op = "removeV2" /\ req[s].pc = "insert"
    /\ LET r == req[s]
           id == NextId(moderation_logs)
           originalLog == moderation_logs[r.rq.logId[1]]
       IN IF dbOk
          THEN /\ moderation_logs' = Append(moderation_logs,
                     LogRow(id, originalLog.guild_id, originalLog.user_id, Moderator,
                            NULL, "unban",
                            IF FalsyStr(r.rq.reason) THEN "Ban removed via dashboard"
                                                     ELSE r.rq.reason,
                            None, None, Some(TRUE), NULL, r.rq.logId, now))
               /\ Respond(s, "removeV2", r.rq, 200, TRUE, Some(id), r.gw, NULL, "ok")
          ELSE /\ UNCHANGED moderation_logs
               /\ Respond(s, "removeV2", r.rq, 500, FALSE, None, r.gw, NULL, "error")
    /\ UNCHANGED <<mod_logs, punishments, now, platform>>

-----------------------------------------------------------------------------
(* src/routes/moderation.js : GET /:guildId/user/:userId/history *)

\* the order with the oldest row first
MoreRecentAscending(i, j) ==
    \/ moderation_logs[i].created_at < moderation_logs[j].created_at
    \/ /\ moderation_logs[i].created_at = moderation_logs[j].created_at
       /\ i < j

\* line 144: .order("created_at", { ascending: false }).  The store stamps a
\* row when it is inserted, on a finer clock than `now`: of two rows stamped
\* within one tick the later insert is the more recent.
MoreRecent(i, j) ==
    \/ moderation_logs[i].created_at > moderation_logs[j].created_at
    \/ /\ moderation_logs[i].created_at = moderation_logs[j].created_at
       /\ i > j

RECURSIVE Ordered(_)
Ordered(S) ==
    IF S = {} THEN <<>>
    ELSE LET first == CHOOSE i \in S : \A j \in S \ {i} : MoreRecent(i, j)
         IN <<first>> \o Ordered(S \ {first})

\* lines 139-144: the rows of the guild and the user
HistoryQuery(guild_id, user_id) ==
    {i \in 1..Len(moderation_logs) :
        /\ moderation_logs[i].guild_id = guild_id
        /\ moderation_logs[i].user_id = user_id}

\* lines 137-155: the response is the ordered rows, as their ids
HistoryV1(s, rq, dbOk) ==
    /\ ~Busy(s)
    /\ req' = [req EXCEPT ![s] =
                 [op |-> "history", pc |-> "done", rq |-> rq, success |-> FALSE,
                  error_message |-> NULL, gw |-> "none",
                  status |-> IF dbOk THEN 200 ELSE 500,
                  log |-> None, base |-> Len(moderation_logs), at |-> now,
                  ids |-> {},
                  list |-> IF dbOk
                           THEN Ordered(HistoryQuery(rq.guild_id, rq.user_id))
                           ELSE <<>>,
                  db |-> IF dbOk THEN "ok" ELSE "error", row |-> None]]
    /\ UNCHANGED <<moderation_logs, mod_logs, punishments, now, platform>>

-----------------------------------------------------------------------------
(* src/routes/moderation.js : DELETE /:guildId/punishment/:logId *)

\* line 213: `un${log.action_type}`
Un(action_type) == "un" \o action_type

\* lines 161-166: .eq("id", logId).eq("guild_id", guildId).single()
FetchLogV1(guild_id, logId) ==
    {i \in 1..Len(moderation_logs) :
        logId = Some(i) /\ moderation_logs[i].guild_id = guild_id}

\* the model serves a removal while the table has room for its row
HasRoomToRemove ==
    Len(moderation_logs) + Cardinality({s \in Slots : Busy(s)})
        < MaxRows + MaxRemovals

\* lines 159-204
RemoveCallV1(s, rq, guildFound, memberFound, sdkOk) ==
    /\ ~Busy(s) /\ HasRoomToRemove
    /\ IF FetchLogV1(rq.guild_id, rq.logId) = {}
       THEN /\ Respond(s, "removeV1", rq, 404, FALSE, None, "none", NULL, "none")
            /\ UNCHANGED platform
       ELSE IF ~guildFound
       THEN /\ Respond(s, "removeV1", rq, 404, FALSE, None, "not_found", NULL, "none")
            /\ UNCHANGED platform
       ELSE LET log == moderation_logs[rq.logId[1]]
            IN IF log.action_type = "ban"
               THEN IF sdkOk
                    THEN /\ Suspend(s, "removeV1", rq, "insert", TRUE, "ok", NULL)
                         /\ platform' = platform \ {<<rq.guild_id, log.user_id, "ban">>}
                    ELSE /\ Suspend(s, "removeV1", rq, "insert", FALSE, "threw",
                                    "discord error")
                         /\ UNCHANGED platform
               ELSE IF log.action_type \in {"mute", "timeout"}
               THEN IF ~memberFound
                    THEN /\ Suspend(s, "removeV1", rq, "insert", FALSE, "skipped", NULL)
                         /\ UNCHANGED platform
                    ELSE IF sdkOk
                    THEN /\ Suspend(s, "removeV1", rq, "insert", TRUE, "ok", NULL)
                         /\ platform' = platform \
                               {<<rq.guild_id, log.user_id, log.action_type>>}
                    ELSE /\ Suspend(s, "removeV1", rq, "insert", FALSE, "threw",
                                    "discord error")
                         /\ UNCHANGED platform
               ELSE /\ Suspend(s, "removeV1", rq, "insert", TRUE, "none", NULL)
                    /\ UNCHANGED platform
    /\ UNCHANGED <<moderation_logs, mod_logs, punishments, now>>

\* the handler, were the removal written over the original row
RemoveWriteV1Erasing(s, dbOk) ==
    /\ req[s].op = "removeV1" /\ req[s].pc = "insert"
    /\ LET r == req[s]
           id == r.rq.logId[1]
           log == moderation_logs[id]
       IN IF dbOk
          THEN /\ moderation_logs' =
                     [moderation_logs EXCEPT ![id] =
                         LogRow(id, r.rq.guild_id, log.user_id, Moderator,
                                Un(log.action_type), NULL,
                                "Punishment removed via dashboard", None,
                                Some(r.success), None, r.error_message, None, now)]
               /\ Respond(s, "removeV1", r.rq, 200, r.success, Some(id), r.gw,
                          r.error_message, "ok")
          ELSE /\ UNCHANGED moderation_logs
               /\ Respond(s, "removeV1", r.rq, 500, FALSE, None, r.gw,
                          r.error_message, "error")
    /\ UNCHANGED <<mod_logs, punishments, now, platform>>

\* lines 206-233
RemoveWriteV1(s, dbOk) ==
    /\ req[s].op = "removeV1" /\ req[s].pc = "insert"
    /\ LET r == req[s]
           id == NextId(moderation_logs)
           log == moderation_logs[r.rq.logId[1]]
       IN IF dbOk
          THEN /\ moderation_logs' = Append(moderation_logs,
                     LogRow(id, r.rq.guild_id, log.user_id, Moderator,
                            Un(log.action_type), NULL,
                            "Punishment removed via dashboard", None,
                            Some(r.success), None, r.error_message, None, now))
               /\ Respond(s, "removeV1", r.rq, 200, r.success, Some(id), r.gw,
                          r.error_message, "ok")
          ELSE /\ UNCHANGED moderation_logs
               /\ Respond(s, "removeV1", r.rq, 500, FALSE, None, r.gw,
                          r.error_message, "error")
    /\ UNCHANGED <<mod_logs, punishments, now, platform>>

-----------------------------------------------------------------------------
(* src/routes/giveaways.js : POST /punish (lines 788-894) *)

\* a row of mod_logs (lines 856-862); details = {reason, duration}
ModLogRow(id, g, u, m, a, r, d, t) ==
    [id |-> id, guild_id |-> g, user_id |-> u, moderator_id |-> m, action |-> a,
     reason |-> r, duration |-> d, created_at |-> t]

\* a row of punishments (lines 874-881).  The table has no guild column;
\* from_guild records the guild of the request that wrote the row.
PunishmentRow(id, u, m, c, r, e, act, t, g) ==
    [id |-> id, user_id |-> u, moderator_id |-> m, command_name |-> c,
     reason |-> r, expires_at |-> e, active |-> act, created_at |-> t,
     from_guild |-> g]

\* `reason || "No reason provided"`
ReasonOrDefault(reason) == IF FalsyStr(reason) THEN "No reason provided" ELSE reason

\* the expiry, were the duration added as seconds
ExpiresAtV3Seconds(duration, t) ==
    IF FalsyNum(duration) THEN None ELSE Some(t + ParseInt(duration[1]))

\* line 872: duration ? new Date(Date.now() + parseInt(duration) * 60 * 1000) : null
ExpiresAtV3(duration, t) ==
    IF FalsyNum(duration) THEN None ELSE Some(t + ParseInt(duration[1]) * 60)

\* lines 790-850
PunishCallV3(s, rq, guildFound, memberFound, sdkOk) ==
    /\ ~Busy(s) /\ HasRoom
    /\ IF FalsyStr(rq.guild_id) \/ FalsyStr(rq.user_id) \/ FalsyStr(rq.moderator_id)
          \/ FalsyStr(rq.action)
       THEN /\ Respond(s, "punishV3", rq, 400, FALSE, None, "none", NULL, "none")
            /\ UNCHANGED platform
       ELSE IF ~guildFound \/ ~memberFound
       THEN /\ Respond(s, "punishV3", rq, 404, FALSE, None, "not_found", NULL, "none")
            /\ UNCHANGED platform
       ELSE LET a == ToLowerCase(rq.action)
            IN IF a = "warn"
               THEN /\ Suspend(s, "punishV3", rq, "insert_log", TRUE, "none", NULL)
                    /\ UNCHANGED platform
               ELSE IF a \in {"timeout", "mute"} /\ FalsyNum(rq.duration)
               THEN /\ Respond(s, "punishV3", rq, 400, FALSE, None, "none", NULL, "none")
                    /\ UNCHANGED platform
               ELSE IF a \in {"ban", "kick", "timeout", "mute"}
               THEN IF sdkOk
                    THEN /\ Suspend(s, "punishV3", rq, "insert_log", TRUE, "ok", NULL)
                         /\ platform' = platform \cup {<<rq.guild_id, rq.user_id, a>>}
                    ELSE /\ Respond(s, "punishV3", rq, 500, FALSE, None, "threw",
                                    "discord error", "none")
                         /\ UNCHANGED platform
               ELSE /\ Respond(s, "punishV3", rq, 400, FALSE, None, "none", NULL, "none")
                    /\ UNCHANGED platform
    /\ UNCHANGED <<moderation_logs, mod_logs, punishments, now>>

\* whether lines 871-882 apply
NeedsPunishmentRow(action) == ToLowerCase(action) \in {"ban", "timeout", "mute"}

\* lines 852-868 (and 884-888 when no punishments row is due): a failed insert
\* is only printed, and `log` stays null
PunishLogV3(s, dbOk) ==
    /\ req[s].op = "punishV3" /\ req[s].pc = "insert_log"
    /\ LET r == req[s]
           id == NextId(mod_logs)
           details_duration ==
               IF ToLowerCase(r.rq.action) \in {"timeout", "mute"}
               THEN r.rq.duration ELSE None
           log == IF dbOk THEN Some(id) ELSE None
       IN /\ mod_logs' = IF dbOk
                         THEN Append(mod_logs,
                                ModLogRow(id, r.rq.guild_id, r.rq.user_id,
                                          r.rq.moderator_id, r.rq.action,
                                          ReasonOrDefault(r.rq.reason),
                                          details_duration, now))
                         ELSE mod_logs
          /\ IF NeedsPunishmentRow(r.rq.action)
             THEN req' = [req EXCEPT ![s].pc = "insert_punishment", ![s].log = log,
                                     ![s].db = IF dbOk THEN "ok" ELSE "error"]
             ELSE Respond(s, "punishV3", r.rq, 200, TRUE, log, r.gw, NULL,
                          IF dbOk THEN "ok" ELSE "error")
    /\ UNCHANGED <<moderation_logs, punishments, now, platform>>

\* lines 870-888: the result of the insert is not looked at
PunishRowV3(s, dbOk) ==
    /\ req[s].op = "punishV3" /\ req[s].pc = "insert_punishment"
    /\ LET r == req[s]
           id == NextId(punishments)
       IN /\ punishments' = IF dbOk
                            THEN Append(punishments,
                                   PunishmentRow(id, r.rq.user_id, r.rq.moderator_id,
                                                 r.rq.action,
                                                 ReasonOrDefault(r.rq.reason),
                                                 ExpiresAtV3(r.rq.duration, now),
                                                 TRUE, now, r.rq.guild_id))
                            ELSE punishments
          /\ req' = [req EXCEPT ![s].pc = "done", ![s].status = 200,
                                  ![s].row = IF dbOk THEN Some(id) ELSE None]
    /\ UNCHANGED <<moderation_logs, mod_logs, now, platform>>

-----------------------------------------------------------------------------
(* src/routes/giveaways.js : POST /unpunish (lines 897-958) *)

\* line 947: action.replace("un", ""), which drops the first "un"
RemoveUn(action) ==
    CASE action = "unban" -> "ban"
      [] action = "untimeout" -> "timeout"
      [] action = "unmute" -> "mute"
      [] OTHER -> action

\* lines 899-939.  When the member of an untimeout / unmute is not found,
\* success stays false and the handler ends without sending a response
\* (status 0).
UnpunishCallV3(s, rq, guildFound, memberFound, sdkOk) ==
    /\ ~Busy(s)
    /\ IF FalsyStr(rq.guild_id) \/ FalsyStr(rq.user_id) \/ FalsyStr(rq.action)
       THEN /\ Respond(s, "unpunishV3", rq, 400, FALSE, None, "none", NULL, "none")
            /\ UNCHANGED platform
       ELSE IF ~guildFound
       THEN /\ Respond(s, "unpunishV3", rq, 404, FALSE, None, "not_found", NULL, "none")
            /\ UNCHANGED platform
       ELSE LET a == ToLowerCase(rq.action)
            IN IF a = "unban"
               THEN IF sdkOk
                    THEN /\ Suspend(s, "unpunishV3", rq, "update", TRUE, "ok", NULL)
                         /\ platform' = platform \ {<<rq.guild_id, rq.user_id, "ban">>}
                    ELSE /\ Respond(s, "unpunishV3", rq, 500, FALSE, None, "threw",
                                    "discord error", "none")
                         /\ UNCHANGED platform
               ELSE IF a \in {"untimeout", "unmute"}
               THEN IF ~memberFound
                    THEN /\ Respond(s, "unpunishV3", rq, 0, FALSE, None, "skipped",
                                    NULL, "none")
                         /\ UNCHANGED platform
                    ELSE IF sdkOk
                    THEN /\ Suspend(s, "unpunishV3", rq, "update", TRUE, "ok", NULL)
                         /\ platform' = platform \
                               {<<rq.guild_id, rq.user_id, "timeout">>,
                                <<rq.guild_id, rq.user_id, "mute">>}
                    ELSE /\ Respond(s, "unpunishV3", rq, 500, FALSE, None, "threw",
                                    "discord error", "none")
                         /\ UNCHANGED platform
               ELSE /\ Respond(s, "unpunishV3", rq, 400, FALSE, None, "none", NULL, "none")
                    /\ UNCHANGED platform
    /\ UNCHANGED <<moderation_logs, mod_logs, punishments, now>>

\* lines 941-953: the update is by user_id and command_name, its result is
\* not looked at
UnpunishUpdateV3(s, dbOk) ==
    /\ req[s].op = "unpunishV3" /\ req[s].pc = "update"
    /\ LET r == req[s]
       IN /\ punishments' =
                IF dbOk
                THEN [i \in 1..Len(punishments) |->
                        IF /\ punishments[i].user_id = r.rq.user_id
                           /\ punishments[i].command_name = RemoveUn(r.rq.action)
                        THEN [punishments[i] EXCEPT !.active = FALSE]
                        ELSE punishments[i]]
                ELSE punishments
          /\ Respond(s, "unpunishV3", r.rq, 200, TRUE, None, r.gw, NULL,
                     IF dbOk THEN "ok" ELSE "error")
    /\ UNCHANGED <<moderation_logs, mod_logs, now, platform>>

-----------------------------------------------------------------------------

Tick ==
    /\ now < MaxTime
    /\ now' = now + 1
    /\ UNCHANGED <<moderation_logs, mod_logs, punishments, platform, req>>

Init ==
    /\ moderation_logs = <<>>
    /\ mod_logs = <<>>
    /\ punishments = <<>>
    /\ now = 0
    /\ platform = {}
    /\ req = [s \in Slots |-> IdleSlot]

-----------------------------------------------------------------------------
(* Requests *)

Punish(g, u, a, r, d) == Req(g, u, Moderator, a, r, d, None)

RemoveRequests(G) ==
    {Req(g, NULL, Moderator, NULL, NULL, None, Some(l)) : g \in G, l \in 1..MaxRows}

ActiveRequests(G) ==
    {Req(g, NULL, NULL, NULL, NULL, None, None) : g \in G}

-----------------------------------------------------------------------------
(* Specifications *)

PunishV1(S, R) ==
    \/ \E s \in S, rq \in R, guildOk, memberOk, sdkOk \in BOOLEAN :
           PunishCallV1(s, rq, guildOk, memberOk, sdkOk)
    \/ \E s \in S, dbOk \in BOOLEAN : PunishWriteV1(s, dbOk)

PunishV2(S, R) ==
    \/ \E s \in S, rq \in R, guildOk, memberOk, sdkOk \in BOOLEAN :
           PunishCallV2(s, rq, guildOk, memberOk, sdkOk)
    \/ \E s \in S, dbOk \in BOOLEAN : PunishWriteV2(s, dbOk)

PunishV3(S, R) ==
    \/ \E s \in S, rq \in R, guildOk, memberOk, sdkOk \in BOOLEAN :
           PunishCallV3(s, rq, guildOk, memberOk, sdkOk)
    \/ \E s \in S, dbOk \in BOOLEAN : PunishLogV3(s, dbOk)
    \/ \E s \in S, dbOk \in BOOLEAN : PunishRowV3(s, dbOk)

RemoveV1(S, R) ==
    \/ \E s \in S, rq \in R, guildOk, memberOk, sdkOk \in BOOLEAN :
           RemoveCallV1(s, rq, guildOk, memberOk, sdkOk)
    \/ \E s \in S, dbOk \in BOOLEAN : RemoveWriteV1(s, dbOk)

RemoveV2(S, R) ==
    \/ \E s \in S, rq \in R, guildOk, sdkOk \in BOOLEAN :
           RemoveCallV2(s, rq, guildOk, sdkOk)
    \/ \E s \in S, dbOk \in BOOLEAN : RemoveWriteV2(s, dbOk)

UnpunishV3(S, R) ==
    \/ \E s \in S, rq \in R, guildFound \in BOOLEAN, memberFound \in BOOLEAN,
          sdkOk \in BOOLEAN : UnpunishCallV3(s, rq, guildFound, memberFound, sdkOk)
    \/ \E s \in S, dbOk \in BOOLEAN : UnpunishUpdateV3(s, dbOk)

Active(S, R) == \E s \in S, rq \in R : ListActive(s, rq)

\* src/routes/moderation.js, the router mounted at /api/moderation:
\* punish and remove, one request at a time
RequestsV1 ==
    {Punish("g1", "u1", "warn", "spam", None),
     Punish("g1", "u1", "warn", NULL, None),
     Punish("g1", "u1", "timeout", "spam", Some(2)),
     Punish("g1", "u1", "timeout", "spam", None),
     Punish("g1", "u1", "kick", "spam", None),
     Punish("g1", "u1", "ban", "spam", None),
     Punish("g1", "u1", "ban", NULL, None),
     Punish("g1", "u1", "purge", "spam", None)}

Next ==
    \/ PunishV1({1}, RequestsV1)
    \/ RemoveV1({1}, RemoveRequests({"g1"}))

Spec == Init /\ [][Next]_vars

\* src/routes/giveaways.js lines 229-521: punish, active and remove
RequestsV2 ==
    {Punish("g1", "u1", "timeout", "spam", Some(2)),
     Punish("g1", "u1", "timeout", "spam", None),
     Punish("g1", "u1", "ban", "spam", None),
     Punish("g2", "u1", "ban", "spam", None),
     Punish("g1", "u1", "mute", "spam", Some(2)),
     Punish("g1", "u1", "ban", NULL, None)}

NextDashboard ==
    \/ PunishV2({1}, RequestsV2)
    \/ RemoveV2({1}, RemoveRequests({NULL}))
    \/ Active({1}, ActiveRequests({"g1", NULL}))
    \/ Tick

SpecDashboard == Init /\ [][NextDashboard]_vars

\* the same, with the punish of moderation.js writing the same table
RequestsShared ==
    {Punish("g1", "u1", "ban", "spam", None),
     Punish("g1", "u1", "mute", "spam", Some(2))}

NextShared ==
    \/ NextDashboard
    \/ PunishV1({1}, RequestsShared)

SpecShared == Init /\ [][NextShared]_vars

\* src/routes/giveaways.js lines 758-960: punish, with the clock
RequestsV3 ==
    {Punish("g1", "u1", "warn", NULL, None),
     Punish("g1", "u1", "timeout", "spam", Some(2)),
     Punish("g1", "u1", "timeout", "spam", None),
     Punish("g1", "u1", "mute", "spam", Some(2)),
     Punish("g1", "u1", "ban", "spam", None),
     Punish("g1", "u1", "ban", "spam", Some(2)),
     Punish("g1", "u1", "Ban", "spam", None),
     Punish("g1", "u1", "purge", "spam", None),
     Punish("g1", "u1", NULL, "spam", None)}

NextBot ==
    \/ PunishV3({1}, RequestsV3)
    \/ Tick

SpecBot == Init /\ [][NextBot]_vars

\* the two places that attach an expiry to a timeout: the active view of
\* lines 417-453 and the punishments table of lines 870-882
RequestsExpiry ==
    {Punish("g1", "u1", "timeout", "spam", Some(2)),
     Punish("g1", "u1", "mute", "spam", Some(1))}

NextExpiry ==
    \/ PunishV2({1}, {rq \in RequestsExpiry : rq.action = "timeout"})
    \/ PunishV3({1}, RequestsExpiry)
    \/ Active({1}, ActiveRequests({"g1"}))
    \/ Tick

SpecExpiry == Init /\ [][NextExpiry]_vars

\* the two remove handlers, with the punish handlers that feed them
RequestsReverse ==
    {Punish("g1", "u1", "ban", "spam", None),
     Punish("g1", "u1", "warn", "spam", None)}

NextReverse ==
    \/ PunishV1({1}, RequestsReverse)
    \/ PunishV2({1}, RequestsReverse)
    \/ RemoveV1({1}, RemoveRequests({"g1", "g2"}))
    \/ RemoveV2({1}, RemoveRequests({NULL}))

SpecReverse == Init /\ [][NextReverse]_vars

\* src/routes/giveaways.js lines 788-958: punish and unpunish
RequestsPunished ==
    {Punish("g1", "u1", "ban", "spam", None),
     Punish("g1", "u1", "timeout", "spam", Some(2)),
     Punish("g1", "u1", "Ban", "spam", None),
     Punish("g1", "u2", "ban", "spam", None)}

RequestsUnpunish ==
    {Req(g, u, NULL, a, NULL, None, None) :
        g \in {"g1", "g2"}, u \in {"u1"}, a \in {"unban", "untimeout", "UnBan", "pardon"}}
    \cup {Req("g1", "u1", NULL, NULL, NULL, None, None)}

NextUnpunish ==
    \/ PunishV3({1}, RequestsPunished)
    \/ UnpunishV3({1}, RequestsUnpunish)

SpecUnpunish == Init /\ [][NextUnpunish]_vars

\* every handler that writes or reads a sanction record
RequestsRecords == {Punish("g1", "u1", "ban", "spam", None)}

NextRecords ==
    \/ PunishV1({1}, RequestsRecords)
    \/ PunishV2({1}, RequestsRecords)
    \/ PunishV3({1}, RequestsRecords)
    \/ RemoveV1({1}, RemoveRequests({"g1"}))
    \/ RemoveV2({1}, RemoveRequests({NULL}))
    \/ UnpunishV3({1}, {Req("g1", "u1", NULL, "unban", NULL, None, None)})
    \/ Active({1}, ActiveRequests({"g1"}))

SpecRecords == Init /\ [][NextRecords]_vars

\* src/routes/moderation.js: punish, remove punishment and history
RequestsHistory ==
    {Punish("g1", "u1", "ban", "spam", None),
     Punish("g1", "u2", "ban", "spam", None)}

NextHistory ==
    \/ PunishV1({1}, RequestsHistory)
    \/ RemoveV1({1}, {Req("g1", NULL, Moderator, NULL, NULL, None, Some(1))})
    \/ \E dbOk \in BOOLEAN :
          HistoryV1(1, Req("g1", "u1", NULL, NULL, NULL, None, None), dbOk)
    \/ Tick

SpecHistory == Init /\ [][NextHistory]_vars

\* two punish requests in flight at once
RequestsRace ==
    {Punish("g1", "u1", "ban", "spam", None),
     Punish("g1", "u2", "ban", "spam", None)}

NextRace ==
    \/ PunishV1({1, 2}, RequestsRace)
    \/ PunishV2({1, 2}, RequestsRace)

SpecRace == Init /\ [][NextRace]_vars

\* remove requests that state the guild they are made for: the :guildId of
\* DELETE /:guildId/punishment/:logId, and for POST /remove/:logId the guild
\* the caller's access was established for before the handler runs
RequestsAddressed ==
    {Punish("g1", "u1", "ban", "spam", None)}

NextAddressed ==
    \/ PunishV1({1}, RequestsAddressed)
    \/ PunishV2({1}, RequestsAddressed)
    \/ RemoveV1({1}, RemoveRequests({"g1", "g2"}))
    \/ RemoveV2({1}, RemoveRequests({"g1", "g2"}))

SpecAddressed == Init /\ [][NextAddressed]_vars

-----------------------------------------------------------------------------
(* Properties *)

Done(s) == req[s].pc = "done"

IsPunish(op) == op \in {"punishV1", "punishV2", "punishV3"}

IsRemove(op) == op \in {"removeV1", "removeV2"}

ForwardKinds == {"warn", "mute", "timeout", "kick", "ban"}

\* a request that states a guild, a user, a moderator, one of the five kinds,
\* a reason, and a positive duration exactly when the kind is mute or timeout
WellFormed(rq) ==
    /\ ~FalsyStr(rq.guild_id) /\ ~FalsyStr(rq.user_id) /\ ~FalsyStr(rq.moderator_id)
    /\ ~FalsyStr(rq.action) /\ rq.action \in ForwardKinds
    /\ ~FalsyStr(rq.reason)
    /\ IF rq.action \in {"mute", "timeout"}
       THEN rq.duration # None /\ rq.duration[1] > 0
       ELSE rq.duration = None

\* the platform call of the request failed
EnforcementFailed(s) == req[s].gw \in {"threw", "not_found", "skipped"}

\* the kind and the enforcement flag of a row, whichever columns hold them
Kind(r) == IF r.action # NULL THEN r.action ELSE r.action_type

Flag(r) == IF r.executed # None THEN r.executed ELSE r.success

\* C1: every punish request that passes validation and whose store write does
\* not fail has its record persisted, also when the enforcement call failed.
C1_RecordWhateverOutcome ==
    \A s \in Slots :
        (/\ Done(s) /\ IsPunish(req[s].op) /\ WellFormed(req[s].rq)
         /\ EnforcementFailed(s) /\ req[s].db # "error")
        => req[s].log # None

\* C2: a punish whose enforcement call failed is answered 201 with the success
\* flag false, equal to the flag of the persisted record, which carries the
\* error message.
C2_FailureIsCreated ==
    \A s \in Slots :
        (/\ Done(s) /\ IsPunish(req[s].op) /\ WellFormed(req[s].rq)
         /\ EnforcementFailed(s) /\ req[s].db # "error")
        => /\ req[s].status = 201
           /\ req[s].success = FALSE
           /\ req[s].log # None
           /\ Flag(moderation_logs[req[s].log[1]]) = Some(FALSE)
           /\ moderation_logs[req[s].log[1]].error_message # NULL

\* C3: a record or a response reports success only when the platform call of
\* the operation that wrote it succeeded (or none was due).
C3_SuccessOnlyAfterGatewaySuccess ==
    \A s \in Slots :
        (/\ Done(s) /\ (IsPunish(req[s].op) \/ IsRemove(req[s].op))
         /\ EnforcementFailed(s))
        => /\ req[s].success = FALSE
           /\ req[s].log # None /\ req[s].op # "punishV3"
                => Flag(moderation_logs[req[s].log[1]]) # Some(TRUE)

\* row i is reversed by one of the first n rows: a row that points at it, or
\* (moderation.js writes no pointer) a later un-row for the same guild and user
ReversedWithin(i, n) ==
    \E j \in 1..n :
        \/ moderation_logs[j].related_log_id = Some(i)
        \/ /\ j > i
           /\ moderation_logs[i].action_type # NULL
           /\ moderation_logs[j].action_type = Un(moderation_logs[i].action_type)
           /\ moderation_logs[j].guild_id = moderation_logs[i].guild_id
           /\ moderation_logs[j].user_id = moderation_logs[i].user_id

Reversed(i) == ReversedWithin(i, Len(moderation_logs))

ActiveBans(g, u) ==
    {i \in 1..Len(moderation_logs) :
        /\ Kind(moderation_logs[i]) = "ban"
        /\ moderation_logs[i].guild_id = g
        /\ moderation_logs[i].user_id = u
        /\ ~Reversed(i)}

\* C4: a (guild, user) pair has at most one ban record that is not reversed.
C4_OneActiveBan ==
    \A i, j \in 1..Len(moderation_logs) :
        (/\ i \in ActiveBans(moderation_logs[i].guild_id, moderation_logs[i].user_id)
         /\ j \in ActiveBans(moderation_logs[i].guild_id, moderation_logs[i].user_id))
        => i = j

\* both requests passed their platform call before either wrote its row
Interleaved(s1, s2) ==
    /\ req[s1].log # None /\ req[s2].log # None
    /\ req[s1].base < req[s2].log[1]
    /\ req[s2].base < req[s1].log[1]

SameBan(s1, s2) ==
    /\ IsPunish(req[s1].op) /\ IsPunish(req[s2].op)
    /\ req[s1].rq.action = "ban" /\ req[s2].rq.action = "ban"
    /\ req[s1].rq.guild_id = req[s2].rq.guild_id
    /\ req[s1].rq.user_id = req[s2].rq.user_id

\* C5: of two interleaved ban requests for one (guild, user), only one
\* persists its record; the other is answered 409 and writes nothing.
C5_ConcurrentBanConflict ==
    \A s1, s2 \in Slots :
        (s1 # s2 /\ Done(s1) /\ Done(s2) /\ SameBan(s1, s2))
        => \/ ~Interleaved(s1, s2)
           \/ req[s1].status = 409 /\ req[s1].log = None
           \/ req[s2].status = 409 /\ req[s2].log = None

\* the rows a done `active` response could have listed: those of the query,
\* among the rows the table held
Listable(s) == {i \in ActiveQuery(req[s].rq.guild_id) : i <= req[s].base}

IsActiveResponse(s) == Done(s) /\ req[s].op = "active"

\* C6: the active list holds no timeout or mute row whose expiry, created_at
\* plus duration, is at or before the time of the call.
C6_NoExpiredListed ==
    \A s \in Slots :
        IsActiveResponse(s) =>
            \A i \in req[s].ids :
                (/\ Kind(moderation_logs[i]) \in {"timeout", "mute"}
                 /\ moderation_logs[i].duration # None)
                => moderation_logs[i].created_at + moderation_logs[i].duration[1]
                       > req[s].at

\* a timeout whose expiry is exactly the time of the call was left out
C6_BoundaryExcluded ==
    \E s \in Slots :
        /\ IsActiveResponse(s)
        /\ \E i \in Listable(s) :
              /\ moderation_logs[i].action = "timeout"
              /\ moderation_logs[i].duration # None
              /\ moderation_logs[i].created_at + moderation_logs[i].duration[1]
                     = req[s].at
              /\ i \notin req[s].ids

\* C7: the active list of a guild holds every ban, mute and timeout row of the
\* guild that is not reversed and not expired, whatever its enforcement
\* outcome, and no row of another guild.
C7_ListsEveryActive ==
    \A s \in Slots :
        (IsActiveResponse(s) /\ ~FalsyStr(req[s].rq.guild_id)) =>
            /\ \A i \in 1..req[s].base :
                  (/\ Kind(moderation_logs[i]) \in {"ban", "mute", "timeout"}
                   /\ moderation_logs[i].guild_id = req[s].rq.guild_id
                   /\ ~ReversedWithin(i, req[s].base)
                   /\ (Kind(moderation_logs[i]) \in {"mute", "timeout"}
                       /\ moderation_logs[i].duration # None)
                      => moderation_logs[i].created_at + moderation_logs[i].duration[1]
                             > req[s].at)
                  => i \in req[s].ids
            /\ \A i \in req[s].ids :
                  moderation_logs[i].guild_id = req[s].rq.guild_id

\* C8: a row that was reversed before the call is not in the active list.
C8_ReversedNotListed ==
    \A s \in Slots :
        IsActiveResponse(s) =>
            \A i \in req[s].ids : ~ReversedWithin(i, req[s].base)

\* C9: a step that answers an active request changes no table.
C9_ListActiveWritesNothing ==
    [][\A s \in Slots :
          (req'[s] # req[s] /\ req'[s].op = "active" /\ req'[s].pc = "done")
          => /\ moderation_logs' = moderation_logs
             /\ mod_logs' = mod_logs
             /\ punishments' = punishments]_vars

\* an expired timeout was left out of the list and is still stored as executed
C9_ExpiredKeptInStore ==
    \E s \in Slots :
        /\ IsActiveResponse(s)
        /\ \E i \in Listable(s) :
              /\ i \notin req[s].ids
              /\ moderation_logs[i].action = "timeout"
              /\ moderation_logs[i].executed = Some(TRUE)
              /\ moderation_logs[i].duration = Some(2)
              /\ moderation_logs[i].created_at + 2 <= req[s].at

IsTimedPunishV3(s) ==
    /\ Done(s) /\ req[s].op = "punishV3" /\ req[s].row # None
    /\ ToLowerCase(req[s].rq.action) \in {"mute", "timeout"}

TargetStored(rq) == rq.logId # None /\ rq.logId[1] \in 1..Len(moderation_logs)

\* C11: a remove request that names a warn or kick record is refused: it
\* writes no reversal record and does not report success.
C11_WarnKickNotReversible ==
    \A s \in Slots :
        (/\ Done(s) /\ IsRemove(req[s].op) /\ TargetStored(req[s].rq)
         /\ Kind(moderation_logs[req[s].rq.logId[1]]) \in {"warn", "kick"})
        => /\ req[s].log = None
           /\ req[s].success = FALSE
           /\ req[s].status >= 400

\* the rows that record a reversal of row i
ReversalsOf(i) ==
    {j \in 1..Len(moderation_logs) :
        \/ moderation_logs[j].related_log_id = Some(i)
        \/ /\ j > i
           /\ moderation_logs[i].action_type # NULL
           /\ moderation_logs[j].action_type = Un(moderation_logs[i].action_type)
           /\ moderation_logs[j].guild_id = moderation_logs[i].guild_id
           /\ moderation_logs[j].user_id = moderation_logs[i].user_id}

\* C12: a record has at most one reversal record; a second remove of the same
\* record writes nothing.
C12_AtMostOneReversal ==
    \A i \in 1..Len(moderation_logs) : Cardinality(ReversalsOf(i)) <= 1

\* C13: a remove request whose record id is not in the store is answered 404
\* at once, with no platform call and no change to any table.
C13_MissingIdNotFound ==
    [][\A s \in Slots :
          (/\ req'[s] # req[s] /\ ~Busy(s) /\ IsRemove(req'[s].op)
           /\ ~TargetStored(req'[s].rq))
          => /\ req'[s].pc = "done"
             /\ req'[s].status = 404
             /\ req'[s].gw = "none"
             /\ req'[s].log = None
             /\ moderation_logs' = moderation_logs
             /\ mod_logs' = mod_logs
             /\ punishments' = punishments
             /\ platform' = platform]_vars

\* a remove handler was asked for an id beyond the rows of a store that holds
\* an enforced ban, and answered 404
C13_MissingIdAnswered ==
    /\ req[1].pc = "done" /\ req[1].status = 404
    /\ req[1].op \in {"removeV1", "removeV2"}
    /\ req[1].rq.logId # None
    /\ req[1].rq.logId[1] > Len(moderation_logs)
    /\ Len(moderation_logs) >= 1
    /\ Kind(moderation_logs[1]) = "ban"
    /\ platform # {}

\* a remove request that was answered with the reversal row it wrote
IsReversed(s) ==
    /\ Done(s) /\ IsRemove(req[s].op) /\ req[s].log # None
    /\ TargetStored(req[s].rq)

\* C14: the row a remove request writes has the un-kind of the original's
\* kind, the original's guild and user, and points at the original's id.
C14_ReversalRecordShape ==
    \A s \in Slots :
        IsReversed(s) =>
            LET original == moderation_logs[req[s].rq.logId[1]]
                reversal == moderation_logs[req[s].log[1]]
            IN /\ Kind(reversal) = Un(Kind(original))
               /\ reversal.guild_id = original.guild_id
               /\ reversal.user_id = original.user_id
               /\ reversal.related_log_id = req[s].rq.logId

\* C15: after a remove request is answered, the original row points at the
\* reversal row that was written.
C15_OriginalMarkedReversed ==
    \A s \in Slots :
        IsReversed(s) =>
            moderation_logs[req[s].rq.logId[1]].related_log_id = req[s].log

\* C17: a remove request whose platform call failed is answered 200 with the
\* success flag false, and its reversal row carries the flag false and the
\* error message.
C17_FailedRevokeCaptured ==
    \A s \in Slots :
        (/\ Done(s) /\ IsRemove(req[s].op) /\ TargetStored(req[s].rq)
         /\ req[s].gw \in {"threw", "skipped"} /\ req[s].db # "error")
        => /\ req[s].status = 200
           /\ req[s].success = FALSE
           /\ req[s].log # None
           /\ Flag(moderation_logs[req[s].log[1]]) = Some(FALSE)
           /\ moderation_logs[req[s].log[1]].error_message # NULL

\* the un-kinds a reversal record may carry
UnKinds == {"unban", "unmute", "untimeout"}

\* a stored record of a reversal for the user of punishments row i
HasReversalRecord(i) ==
    \/ \E j \in 1..Len(mod_logs) :
          /\ mod_logs[j].user_id = punishments[i].user_id
          /\ ToLowerCase(mod_logs[j].action) \in UnKinds
    \/ \E j \in 1..Len(punishments) :
          /\ punishments[j].user_id = punishments[i].user_id
          /\ ToLowerCase(punishments[j].command_name) \in UnKinds
    \/ \E j \in 1..Len(moderation_logs) :
          /\ moderation_logs[j].user_id = punishments[i].user_id
          /\ Kind(moderation_logs[j]) \in UnKinds

\* C16: no punishment is marked inactive while the store holds no reversal
\* record for it.
C16_ReversalRecordFirst ==
    \A i \in 1..Len(punishments) :
        punishments[i].active = FALSE => HasReversalRecord(i)

\* every row of the table before the step is the same row after it
Kept(before, after) ==
    /\ Len(after) >= Len(before)
    /\ \A i \in 1..Len(before) : after[i] = before[i]

\* C18: a step never deletes or changes a stored row; the one change is that
\* the update of an unpunish request turns `active` of a punishments row from
\* true to false.
C18_RecordsImmutable ==
    [][/\ Kept(moderation_logs, moderation_logs')
       /\ Kept(mod_logs, mod_logs')
       /\ Len(punishments') >= Len(punishments)
       /\ \A i \in 1..Len(punishments) :
             \/ punishments'[i] = punishments[i]
             \/ /\ punishments[i].active = TRUE
                /\ punishments'[i] = [punishments[i] EXCEPT !.active = FALSE]
                /\ \E s \in Slots :
                      req[s].op = "unpunishV3" /\ req[s].pc = "update"]_vars

\* a ban row is still stored after the remove request that wrote its unban
\* row, and an unpunish request has deactivated a punishments row
C18_OriginalKeptAfterRemove ==
    /\ Len(moderation_logs) >= 2
    /\ moderation_logs[1].action_type = "ban"
    /\ moderation_logs[2].action_type = "unban"
    /\ \E i \in 1..Len(punishments) : punishments[i].active = FALSE

IsHistoryResponse(s) ==
    Done(s) /\ req[s].op = "history" /\ req[s].status = 200

\* the rows of the pair a history request names, among the rows the table held
OfPair(s) ==
    {i \in 1..req[s].base :
        /\ moderation_logs[i].guild_id = req[s].rq.guild_id
        /\ moderation_logs[i].user_id = req[s].rq.user_id}

\* C19: a history response lists every row of the guild and user, whatever its
\* kind and outcome, and no other row, each once, the more recent first; its
\* first element is the row of the pair that was written last.
C19_HistoryComplete ==
    \A s \in Slots :
        IsHistoryResponse(s) =>
            LET list == req[s].list
            IN /\ {list[k] : k \in 1..Len(list)} = OfPair(s)
               /\ Len(list) = Cardinality(OfPair(s))
               /\ \A k, l \in 1..Len(list) :
                     k < l => /\ moderation_logs[list[k]].created_at
                                    >= moderation_logs[list[l]].created_at
                              /\ list[k] > list[l]
               /\ OfPair(s) # {} => \A i \in OfPair(s) : list[1] >= i

\* a history of two rows written at different times, one of them a record of
\* a failed enforcement, while the table also holds a row of another pair
C19_TwoRowsListed ==
    \E s \in Slots :
        /\ IsHistoryResponse(s)
        /\ Len(req[s].list) = 2
        /\ moderation_logs[req[s].list[1]].created_at
               > moderation_logs[req[s].list[2]].created_at
        /\ \E k \in 1..2 : Flag(moderation_logs[req[s].list[k]]) = Some(FALSE)
        /\ req[s].base > 2

\* C20: a mute or timeout request whose duration is missing, zero or negative
\* makes no platform call, writes no record and is answered 400.
C20_DurationRequired ==
    \A s \in Slots :
        (/\ IsPunish(req[s].op)
         /\ ~FalsyStr(req[s].rq.user_id) /\ ~FalsyStr(req[s].rq.reason)
         /\ req[s].rq.action \in {"mute", "timeout"}
         /\ (req[s].rq.duration = None \/ req[s].rq.duration[1] <= 0))
        => /\ req[s].gw \in {"none", "not_found"}
           /\ req[s].log = None
           /\ Done(s) => req[s].status \in {400, 404}

\* C21: no stored ban, warn or kick record carries a duration or an expiry.
C21_NoDurationOnBan ==
    /\ \A i \in 1..Len(moderation_logs) :
          Kind(moderation_logs[i]) \in {"ban", "warn", "kick"}
          => moderation_logs[i].duration = None
    /\ \A i \in 1..Len(mod_logs) :
          ToLowerCase(mod_logs[i].action) \in {"ban", "warn", "kick"}
          => mod_logs[i].duration = None
    /\ \A i \in 1..Len(punishments) :
          ToLowerCase(punishments[i].command_name) \in {"ban", "warn", "kick"}
          => punishments[i].expires_at = None

\* the fields and the kind the validation is to ask for; the kind is read
\* without regard to letter case
HasRequiredFields(rq) ==
    /\ ~FalsyStr(rq.guild_id) /\ ~FalsyStr(rq.user_id) /\ ~FalsyStr(rq.moderator_id)
    /\ ~FalsyStr(rq.action) /\ ToLowerCase(rq.action) \in ForwardKinds

\* the request was refused by validation, before any look-up
RefusedByValidation(s) ==
    Done(s) /\ req[s].status = 400 /\ req[s].gw = "none" /\ req[s].log = None

\* C22: a punish request that lacks a required field or names no forward kind
\* is answered 400 with no look-up, no platform call and no record; a request
\* that is well formed, whichever of the five kinds it names, is not refused
\* by validation.
C22_ValidationGate ==
    \A s \in Slots :
        (Done(s) /\ IsPunish(req[s].op)) =>
            /\ ~HasRequiredFields(req[s].rq) => RefusedByValidation(s)
            /\ WellFormed(req[s].rq) => ~RefusedByValidation(s)

\* the reason stored by the request of slot s
PersistedReason(s) ==
    IF req[s].op = "punishV3"
    THEN mod_logs[req[s].log[1]].reason
    ELSE moderation_logs[req[s].log[1]].reason

\* C23: a punish request with an empty or missing reason is refused for mute,
\* timeout, kick and ban, and is accepted for warn, whose stored reason is
\* then "No reason provided".
C23_ReasonRequiredExceptWarn ==
    \A s \in Slots :
        (/\ Done(s) /\ IsPunish(req[s].op) /\ HasRequiredFields(req[s].rq)
         /\ FalsyStr(req[s].rq.reason))
        => IF ToLowerCase(req[s].rq.action) = "warn"
           THEN /\ ~RefusedByValidation(s)
                /\ req[s].log # None => PersistedReason(s) = "No reason provided"
           ELSE RefusedByValidation(s)

\* the punish request of slot s ended with a store write refused, or with a
\* status of error that is not the outcome of its platform call
EndedInOtherError(s) ==
    \/ req[s].status >= 400 /\ req[s].gw \in {"none", "ok"}
    \/ req[s].db = "error"
    \/ /\ req[s].op = "punishV3" /\ req[s].status = 200
       /\ NeedsPunishmentRow(req[s].rq.action)
       /\ req[s].row = None

\* C24: a punish request that ended in such an error wrote no row at all.
C24_NoPartialWrite ==
    \A s \in Slots :
        (Done(s) /\ IsPunish(req[s].op) /\ EndedInOtherError(s))
        => req[s].log = None /\ req[s].row = None

\* C25: the kind of every stored record is one of the five forward kinds or
\* of the three un-kinds.
C25_KindsClosed ==
    /\ \A i \in 1..Len(moderation_logs) :
          Kind(moderation_logs[i]) \in ForwardKinds \cup UnKinds
    /\ \A i \in 1..Len(mod_logs) :
          ToLowerCase(mod_logs[i].action) \in ForwardKinds \cup UnKinds

\* the punish request of slot s made its platform call and then had its
\* insert refused
AppliedThenRefused(s) ==
    /\ Done(s) /\ req[s].op \in {"punishV1", "punishV2"}
    /\ req[s].gw = "ok" /\ req[s].db = "error"

\* C26: when the insert of a punish request is refused after its platform
\* call, the request ends (500) with the action applied on the platform and
\* no record of it written.
C26_AppliedWithoutRecord ==
    \A s \in Slots :
        AppliedThenRefused(s) =>
            /\ <<req[s].rq.guild_id, req[s].rq.user_id, req[s].rq.action>> \in platform
            /\ req[s].log = None
            /\ req[s].status = 500

\* a ban is applied on the platform, its request has ended, and the store
\* holds no record at all
C26_BanWithNoRecord ==
    \E s \in Slots :
        /\ AppliedThenRefused(s)
        /\ req[s].rq.action = "ban"
        /\ <<req[s].rq.guild_id, req[s].rq.user_id, "ban">> \in platform
        /\ moderation_logs = <<>>
        /\ \A o \in Slots : ~Busy(o)

\* C27: a punish, remove or unpunish handler that has ended has sent a
\* response.
C27_AlwaysAnswered ==
    \A s \in Slots :
        (Done(s) /\ (IsPunish(req[s].op) \/ IsRemove(req[s].op)
                        \/ req[s].op = "unpunishV3"))
        => req[s].status \in {200, 201, 400, 404, 500}

\* C28: the active flag of a punishments row changes only in the update of an
\* unpunish request for the row's user, the guild of the punish that wrote the
\* row, and the row's kind.
C28_UnpunishWithinGuild ==
    [][\A i \in 1..Len(punishments) :
          punishments'[i].active # punishments[i].active
          => \E s \in Slots :
                /\ req[s].op = "unpunishV3" /\ req[s].pc = "update"
                /\ punishments[i].user_id = req[s].rq.user_id
                /\ punishments[i].from_guild = req[s].rq.guild_id
                /\ ToLowerCase(punishments[i].command_name)
                       = RemoveUn(ToLowerCase(req[s].rq.action))]_vars

\* C29: after an unpunish request is answered success and its update went
\* through, no punishments row of the user and of the kind, read without
\* regard to letter case, is still active.
C29_UnpunishAnyCase ==
    \A s \in Slots :
        (/\ Done(s) /\ req[s].op = "unpunishV3"
         /\ req[s].status = 200 /\ req[s].db = "ok")
        => \A i \in 1..Len(punishments) :
              (/\ punishments[i].user_id = req[s].rq.user_id
               /\ ToLowerCase(punishments[i].command_name)
                      = RemoveUn(ToLowerCase(req[s].rq.action)))
              => punishments[i].active = FALSE

\* C30: a remove request goes on to the platform, lifts a sanction or writes a
\* reversal row only for a stored record of the guild the request states; the
\* sanction it lifts is the one of the record's guild and user, and the row it
\* writes carries the record's guild and user.
C30_RemoveWithinGuild ==
    [][\A s \in Slots :
          (/\ IsRemove(req'[s].op) /\ req'[s] # req[s]
           /\ \/ req'[s].pc = "insert"
              \/ platform' # platform
              \/ Len(moderation_logs') > Len(moderation_logs))
          => /\ TargetStored(req'[s].rq)
             /\ LET original == moderation_logs[req'[s].rq.logId[1]]
                IN /\ original.guild_id = req'[s].rq.guild_id
                   /\ platform \ platform'
                         \subseteq {<<original.guild_id, original.user_id,
                                      Kind(original)>>}
                   /\ Len(moderation_logs') > Len(moderation_logs)
                      => LET reversal == moderation_logs'[Len(moderation_logs')]
                         IN /\ reversal.guild_id = original.guild_id
                            /\ reversal.user_id = original.user_id]_vars

====
